---------------------------- MODULE Spec2Model ----------------------------
(***************************************************************************)
(* Tool-result normalisation and tool-usage extraction of                  *)
(* sm_mlflow_pipe/fc_agent_eval.py:                                        *)
(*   _parse_result_payload, _coerce_to_documents, get_clean_docs,          *)
(*   extract_combined_tools.                                               *)
(*                                                                         *)
(* The functions are pure.  A behaviour picks one call (function and       *)
(* arguments) in Init and one action applies the function and records its  *)
(* outcome.                                                                *)
(*                                                                         *)
(* Python values are records [t |-> type tag, v |-> payload]:              *)
(*   None, bool, int, str          scalars (a str is a TLA+ string)        *)
(*   list, tuple                   v is the sequence of items              *)
(*   dict                          v is the sequence of <<key, value>>     *)
(*                                 pairs in insertion order, keys unique   *)
(*   object                        v is the sequence of <<name, value>>    *)
(*                                 attribute pairs (name a TLA+ string)    *)
(*   Document                      v is [content |-> value, meta |-> value]*)
(*   Raise                         an exception in flight, v its type name *)
(***************************************************************************)
EXTENDS Integers, Sequences, FiniteSets, TLC

VARIABLES
    fn,          \* the function that is called
    arg,         \* its first argument (payload, obj, answer or raw_answer)
    target,      \* target_tool_name of get_clean_docs
    docStrict,   \* whether the installed haystack Document validates content
    pc,          \* "call" before the call, "done" after it
    ret,         \* what the call returned, or the exception it propagated
    candidates,  \* get_clean_docs: the candidates list when it was consumed
    tools_used   \* extract_combined_tools: the tools_used list at the return

vars == <<fn, arg, target, docStrict, pc, ret, candidates, tools_used>>

---------------------------------------------------------------------------
(* Python values *)

PyNone == [t |-> "None", v |-> ""]
PyBool(b) == [t |-> "bool", v |-> b]
PyInt(n) == [t |-> "int", v |-> n]
PyStr(s) == [t |-> "str", v |-> s]
PyList(items) == [t |-> "list", v |-> items]
PyTuple(items) == [t |-> "tuple", v |-> items]
PyDict(pairs) == [t |-> "dict", v |-> pairs]
PyObject(attrs) == [t |-> "object", v |-> attrs]
Raise(e) == [t |-> "Raise", v |-> e]

IsRaise(x) == x.t = "Raise"

\* bool(x): Python truthiness
Truthy(x) ==
    CASE x.t = "None" -> FALSE
      [] x.t = "bool" -> x.v
      [] x.t = "int" -> x.v # 0
      [] x.t = "str" -> x.v # ""
      [] x.t \in {"list", "tuple", "dict"} -> Len(x.v) > 0
      [] OTHER -> TRUE

\* a or b
Or(a, b) == IF Truthy(a) THEN a ELSE b

\* index of the first pair of pairs whose first component is k, 0 if none
RECURSIVE PairIndex(_, _, _)
PairIndex(pairs, k, i) ==
    IF i > Len(pairs) THEN 0
    ELSE IF pairs[i][1] = k THEN i
    ELSE PairIndex(pairs, k, i + 1)

\* key in d   (d a dict, key a str)
HasKey(d, key) == PairIndex(d.v, PyStr(key), 1) # 0

\* d[key]   (key present)
Item(d, key) == d.v[PairIndex(d.v, PyStr(key), 1)][2]

\* d.get(key, default)
DictGet(d, key, default) == IF HasKey(d, key) THEN Item(d, key) ELSE default

\* d[k] = val  on the pair sequence of a dict
DictSet(pairs, k, val) ==
    LET i == PairIndex(pairs, k, 1) IN
    IF i = 0 THEN Append(pairs, <<k, val>>)
    ELSE [pairs EXCEPT ![i] = <<k, val>>]

\* hasattr(x, name): only objects carry the attributes the code asks for
\* (_role, role, value, _content, content, result, origin, tool_name); dict,
\* list, str, int, bool, None and Document have none of them
HasAttr(x, name) == x.t = "object" /\ PairIndex(x.v, name, 1) # 0

\* getattr(x, name, default)
GetAttr(x, name, default) ==
    IF HasAttr(x, name) THEN x.v[PairIndex(x.v, name, 1)][2] ELSE default

---------------------------------------------------------------------------
(* Text *)

\* the character at position i of s, "" past either end
Ch(s, i) == IF i >= 1 /\ i <= Len(s) THEN SubSeq(s, i, i) ELSE ""

\* s[i..j], "" when the range leaves the text
Sub(s, i, j) == IF i >= 1 /\ j <= Len(s) /\ i <= j THEN SubSeq(s, i, j) ELSE ""

\* the characters str.strip() removes
Whitespace == {" ", "\t", "\n", "\r", "\f"}

RECURSIVE LStripFrom(_, _)
LStripFrom(s, i) == IF Ch(s, i) \in Whitespace THEN LStripFrom(s, i + 1) ELSE i

RECURSIVE RStripTo(_, _)
RStripTo(s, j) == IF Ch(s, j) \in Whitespace THEN RStripTo(s, j - 1) ELSE j

\* s.strip()
Strip(s) ==
    LET i == LStripFrom(s, 1)
        j == RStripTo(s, Len(s))
    IN  Sub(s, i, j)

Uppers == "ABCDEFGHIJKLMNOPQRSTUVWXYZ"
Lowers == "abcdefghijklmnopqrstuvwxyz"

LowerCh(c) ==
    IF \E k \in 1..26 : Ch(Uppers, k) = c
    THEN Ch(Lowers, CHOOSE k \in 1..26 : Ch(Uppers, k) = c)
    ELSE c

\* s.lower()
RECURSIVE Lower(_)
Lower(s) == IF s = "" THEN "" ELSE LowerCh(Ch(s, 1)) \o Lower(Tail(s))

\* sub in s
Contains(s, sub) ==
    \E i \in 1..(Len(s) + 1) :
        i + Len(sub) - 1 <= Len(s) /\
        (sub = "" \/ SubSeq(s, i, i + Len(sub) - 1) = sub)

Digits == {"0", "1", "2", "3", "4", "5", "6", "7", "8", "9"}

DigitVal(c) == CHOOSE n \in 0..9 : Ch("0123456789", n + 1) = c

\* str(n) of an int n >= 0
RECURSIVE IntToStr(_)
IntToStr(n) ==
    IF n < 10 THEN Ch("0123456789", n + 1)
    ELSE IntToStr(n \div 10) \o Ch("0123456789", (n % 10) + 1)

---------------------------------------------------------------------------
(* The two decoders _parse_result_payload calls.  Both are modelled on the  *)
(* fragment of their syntax that the texts of this model are written in:    *)
(* lists, dicts, tuples, strings with the escapes \\ \" \' \/ \n \t \r \f,  *)
(* non-negative integers, and the constants true/false/null and             *)
(* True/False/None.  A decoder result is [ok, val, pos]: whether a value    *)
(* was read, the value, and the position after it.                          *)

Ok(val, pos) == [ok |-> TRUE, val |-> val, pos |-> pos]
Fail == [ok |-> FALSE, val |-> PyNone, pos |-> 0]

RECURSIVE SkipWs(_, _, _)
SkipWs(s, i, ws) == IF Ch(s, i) \in ws THEN SkipWs(s, i + 1, ws) ELSE i

\* the position after the run of digits that starts at i
RECURSIVE DigitsEnd(_, _)
DigitsEnd(s, i) == IF Ch(s, i) \in Digits THEN DigitsEnd(s, i + 1) ELSE i

\* the value of the digit string s
RECURSIVE DigitsVal(_, _)
DigitsVal(s, acc) ==
    IF s = "" THEN acc ELSE DigitsVal(Tail(s), 10 * acc + DigitVal(Ch(s, 1)))

\* characters that continue a number or a name after a run of digits
NumberTail == {".", "e", "E", "_", "x", "X", "o", "O", "b", "B", "j", "J"}

(* json.loads *)

JsonWs == {" ", "\t", "\n", "\r"}

JsonEscapes == {"\"", "\\", "/", "n", "t", "r", "f"}

JsonEscape(e) ==
    CASE e = "n" -> "\n"
      [] e = "t" -> "\t"
      [] e = "r" -> "\r"
      [] e = "f" -> "\f"
      [] OTHER -> e

\* the rest of a string whose opening quote is before i
RECURSIVE JsonString(_, _, _)
JsonString(s, i, acc) ==
    LET c == Ch(s, i) IN
    IF c = "" THEN Fail
    ELSE IF c = "\"" THEN Ok(PyStr(acc), i + 1)
    ELSE IF c = "\\" THEN
        IF Ch(s, i + 1) \in JsonEscapes
        THEN JsonString(s, i + 2, acc \o JsonEscape(Ch(s, i + 1)))
        ELSE Fail
    ELSE IF c \in {"\n", "\t", "\r", "\f"} THEN Fail
    ELSE JsonString(s, i + 1, acc \o c)

\* 0 | [1-9][0-9]*
JsonNumber(s, i) ==
    LET j == IF Ch(s, i) = "0" THEN i + 1 ELSE DigitsEnd(s, i) IN
    IF Ch(s, j) \in {".", "e", "E"} THEN Fail
    ELSE Ok(PyInt(DigitsVal(SubSeq(s, i, j - 1), 0)), j)

RECURSIVE JsonValue(_, _), JsonElements(_, _, _), JsonMembers(_, _, _)

\* the value that starts at i
JsonValue(s, i) ==
    LET c == Ch(s, i) IN
    CASE c = "[" ->
            LET j == SkipWs(s, i + 1, JsonWs) IN
            IF Ch(s, j) = "]" THEN Ok(PyList(<<>>), j + 1)
            ELSE JsonElements(s, j, <<>>)
      [] c = "{" ->
            LET j == SkipWs(s, i + 1, JsonWs) IN
            IF Ch(s, j) = "}" THEN Ok(PyDict(<<>>), j + 1)
            ELSE JsonMembers(s, j, <<>>)
      [] c = "\"" -> JsonString(s, i + 1, "")
      [] c \in Digits -> JsonNumber(s, i)
      [] c = "t" /\ Sub(s, i, i + 3) = "true" -> Ok(PyBool(TRUE), i + 4)
      [] c = "f" /\ Sub(s, i, i + 4) = "false" -> Ok(PyBool(FALSE), i + 5)
      [] c = "n" /\ Sub(s, i, i + 3) = "null" -> Ok(PyNone, i + 4)
      [] OTHER -> Fail

\* the elements of a list from the one that starts at i, up to its "]"
JsonElements(s, i, acc) ==
    LET r == JsonValue(s, i) IN
    IF ~r.ok THEN Fail
    ELSE LET j == SkipWs(s, r.pos, JsonWs) IN
         IF Ch(s, j) = "," THEN
             JsonElements(s, SkipWs(s, j + 1, JsonWs), Append(acc, r.val))
         ELSE IF Ch(s, j) = "]" THEN Ok(PyList(Append(acc, r.val)), j + 1)
         ELSE Fail

\* the members of an object from the key that starts at i, up to its "}"
JsonMembers(s, i, acc) ==
    IF Ch(s, i) # "\"" THEN Fail
    ELSE
    LET k == JsonString(s, i + 1, "") IN
    IF ~k.ok THEN Fail
    ELSE
    LET c == SkipWs(s, k.pos, JsonWs) IN
    IF Ch(s, c) # ":" THEN Fail
    ELSE
    LET r == JsonValue(s, SkipWs(s, c + 1, JsonWs)) IN
    IF ~r.ok THEN Fail
    ELSE
    LET j == SkipWs(s, r.pos, JsonWs)
        more == DictSet(acc, k.val, r.val)
    IN  IF Ch(s, j) = "," THEN JsonMembers(s, SkipWs(s, j + 1, JsonWs), more)
        ELSE IF Ch(s, j) = "}" THEN Ok(PyDict(more), j + 1)
        ELSE Fail

\* json.loads(s): [ok |-> FALSE, ...] stands for the exception it raises
JsonLoads(s) ==
    LET r == JsonValue(s, SkipWs(s, 1, JsonWs)) IN
    IF r.ok /\ SkipWs(s, r.pos, JsonWs) = Len(s) + 1 THEN r ELSE Fail

(* ast.literal_eval *)

LitWs == {" ", "\t"}

LitEscapes == {"\\", "'", "\"", "n", "t", "r", "f"}

\* escapes whose value is outside the fragment: \a \b \v \N \u \U \x, the
\* octal escapes and the line continuation
LitEscapesOther ==
    {"a", "b", "v", "N", "u", "U", "x", "0", "1", "2", "3", "4", "5", "6", "7",
     "\n", ""}

\* the rest of a string opened by the quote q before i; an unrecognised
\* escape keeps its backslash
RECURSIVE LitString(_, _, _, _)
LitString(s, i, q, acc) ==
    LET c == Ch(s, i)
        e == Ch(s, i + 1)
    IN  IF c \in {"", "\n", "\r"} THEN Fail
        ELSE IF c = q THEN Ok(PyStr(acc), i + 1)
        ELSE IF c = "\\" THEN
            IF e \in LitEscapes THEN LitString(s, i + 2, q, acc \o JsonEscape(e))
            ELSE IF e \in LitEscapesOther THEN Fail
            ELSE LitString(s, i + 2, q, acc \o c \o e)
        ELSE LitString(s, i + 1, q, acc \o c)

\* adjacent string literals, concatenated; the first opens at i
RECURSIVE LitStrings(_, _, _)
LitStrings(s, i, acc) ==
    LET q == Ch(s, i) IN
    IF Sub(s, i, i + 2) = q \o q \o q THEN Fail
    ELSE
    LET r == LitString(s, i + 1, q, "") IN
    IF ~r.ok THEN Fail
    ELSE
    LET j == SkipWs(s, r.pos, LitWs) IN
    IF Ch(s, j) \in {"'", "\""} THEN LitStrings(s, j, acc \o r.val.v)
    ELSE Ok(PyStr(acc \o r.val.v), r.pos)

\* 0+ | [1-9][0-9]*
LitNumber(s, i) ==
    LET j == DigitsEnd(s, i)
        n == DigitsVal(SubSeq(s, i, j - 1), 0)
    IN  IF Ch(s, j) \in NumberTail \/ (Ch(s, i) = "0" /\ n # 0) THEN Fail
        ELSE Ok(PyInt(n), j)

\* hash(x) does not raise
RECURSIVE Hashable(_)
Hashable(x) ==
    CASE x.t \in {"None", "bool", "int", "str"} -> TRUE
      [] x.t = "tuple" -> \A k \in 1..Len(x.v) : Hashable(x.v[k])
      [] OTHER -> FALSE

RECURSIVE LitAtom(_, _), LitItems(_, _, _, _, _), LitPairs(_, _, _)

\* the literal that starts at i
LitAtom(s, i) ==
    LET c == Ch(s, i) IN
    CASE c = "[" ->
            LET r == LitItems(s, SkipWs(s, i + 1, LitWs), "]", <<>>, FALSE) IN
            IF r.ok THEN Ok(PyList(r.val[1]), r.pos) ELSE Fail
      [] c = "(" ->
            LET r == LitItems(s, SkipWs(s, i + 1, LitWs), ")", <<>>, FALSE) IN
            IF ~r.ok THEN Fail
            ELSE IF Len(r.val[1]) = 1 /\ ~r.val[2] THEN Ok(r.val[1][1], r.pos)
            ELSE Ok(PyTuple(r.val[1]), r.pos)
      [] c = "{" ->
            LET j == SkipWs(s, i + 1, LitWs) IN
            IF Ch(s, j) = "}" THEN Ok(PyDict(<<>>), j + 1)
            ELSE LitPairs(s, j, <<>>)
      [] c \in {"'", "\""} -> LitStrings(s, i, "")
      [] c \in Digits -> LitNumber(s, i)
      [] c = "T" /\ Sub(s, i, i + 3) = "True" -> Ok(PyBool(TRUE), i + 4)
      [] c = "F" /\ Sub(s, i, i + 4) = "False" -> Ok(PyBool(FALSE), i + 5)
      [] c = "N" /\ Sub(s, i, i + 3) = "None" -> Ok(PyNone, i + 4)
      [] OTHER -> Fail

\* comma-separated literals from position i up to the closing character
\* close ("" for the end of the text): val is <<the items, whether the last
\* item is followed by a comma>>
LitItems(s, i, close, acc, comma) ==
    IF Ch(s, i) = close THEN Ok(<<acc, comma>>, i + 1)
    ELSE
    LET r == LitAtom(s, i) IN
    IF ~r.ok THEN Fail
    ELSE
    LET j == SkipWs(s, r.pos, LitWs) IN
    IF Ch(s, j) = "," THEN
        LitItems(s, SkipWs(s, j + 1, LitWs), close, Append(acc, r.val), TRUE)
    ELSE IF Ch(s, j) = close THEN Ok(<<Append(acc, r.val), FALSE>>, j + 1)
    ELSE Fail

\* the key: value pairs of a dict display from the key at i, up to its "}"
LitPairs(s, i, acc) ==
    IF Ch(s, i) = "}" THEN Ok(PyDict(acc), i + 1)
    ELSE
    LET k == LitAtom(s, i) IN
    IF ~k.ok THEN Fail
    ELSE
    LET c == SkipWs(s, k.pos, LitWs) IN
    IF Ch(s, c) # ":" THEN Fail
    ELSE
    LET r == LitAtom(s, SkipWs(s, c + 1, LitWs)) IN
    IF ~r.ok \/ ~Hashable(k.val) THEN Fail
    ELSE
    LET j == SkipWs(s, r.pos, LitWs)
        more == DictSet(acc, k.val, r.val)
    IN  IF Ch(s, j) = "," THEN LitPairs(s, SkipWs(s, j + 1, LitWs), more)
        ELSE IF Ch(s, j) = "}" THEN Ok(PyDict(more), j + 1)
        ELSE Fail

\* ast.literal_eval(s): [ok |-> FALSE, ...] stands for the exception it
\* raises; an expression list without parentheses is a tuple
LiteralEval(s) ==
    LET r == LitItems(s, SkipWs(s, 1, LitWs), "", <<>>, FALSE) IN
    IF ~r.ok \/ Len(r.val[1]) = 0 THEN Fail
    ELSE IF Len(r.val[1]) = 1 /\ ~r.val[2] THEN Ok(r.val[1][1], r.pos)
    ELSE Ok(PyTuple(r.val[1]), r.pos)

---------------------------------------------------------------------------
(* str() and repr() *)

RECURSIVE EscapeBody(_, _)
EscapeBody(s, q) ==
    IF s = "" THEN ""
    ELSE LET c == Ch(s, 1) IN
         (CASE c = "\\" -> "\\\\"
            [] c = q -> "\\" \o q
            [] c = "\n" -> "\\n"
            [] c = "\t" -> "\\t"
            [] c = "\r" -> "\\r"
            [] c = "\f" -> "\\x0c"
            [] OTHER -> c) \o EscapeBody(Tail(s), q)

\* repr(s) of a str: double quotes only when s holds ' and no "
ReprStr(s) ==
    LET q == IF Contains(s, "'") /\ ~Contains(s, "\"") THEN "\"" ELSE "'" IN
    q \o EscapeBody(s, q) \o q

RECURSIVE Repr(_), ReprItems(_, _), ReprPairs(_, _)

\* repr(x); the default repr of an object and the repr of a Document carry
\* an address or a hash and are kept abstract
Repr(x) ==
    CASE x.t = "None" -> "None"
      [] x.t = "bool" -> IF x.v THEN "True" ELSE "False"
      [] x.t = "int" -> IntToStr(x.v)
      [] x.t = "str" -> ReprStr(x.v)
      [] x.t = "list" -> "[" \o ReprItems(x.v, 1) \o "]"
      [] x.t = "tuple" ->
            "(" \o ReprItems(x.v, 1) \o (IF Len(x.v) = 1 THEN ",)" ELSE ")")
      [] x.t = "dict" -> "{" \o ReprPairs(x.v, 1) \o "}"
      [] x.t = "Document" -> "Document(...)"
      [] OTHER -> "<object>"

ReprItems(items, i) ==
    IF i > Len(items) THEN ""
    ELSE (IF i > 1 THEN ", " ELSE "") \o Repr(items[i]) \o ReprItems(items, i + 1)

ReprPairs(pairs, i) ==
    IF i > Len(pairs) THEN ""
    ELSE (IF i > 1 THEN ", " ELSE "") \o Repr(pairs[i][1]) \o ": "
         \o Repr(pairs[i][2]) \o ReprPairs(pairs, i + 1)

\* str(x)
Str(x) == IF x.t = "str" THEN x.v ELSE Repr(x)

\* for ... in x does not raise TypeError
Iterable(x) == x.t \in {"list", "tuple", "str", "dict"}

\* the items for ... in x yields
Iter(x) ==
    CASE x.t \in {"list", "tuple"} -> x.v
      [] x.t = "str" -> [i \in 1..Len(x.v) |-> PyStr(Ch(x.v, i))]
      [] x.t = "dict" -> [i \in 1..Len(x.v) |-> x.v[i][1]]
      [] OTHER -> <<>>

---------------------------------------------------------------------------
(* _parse_result_payload *)

\* [{"content": s}]
RawDoc(s) == PyList(<<PyDict(<< <<PyStr("content"), PyStr(s)>> >>)>>)

\* ParseText with the two decoders in the other order
ParseTextLiteralFirst(s) ==
    LET l == LiteralEval(s) IN
    IF l.ok THEN l.val
    ELSE LET j == JsonLoads(s) IN
         IF j.ok THEN j.val ELSE RawDoc(s)

\* the str branch: json.loads, then ast.literal_eval, then the raw string
ParseText(s) ==
    LET j == JsonLoads(s) IN
    IF j.ok THEN j.val
    ELSE LET l == LiteralEval(s) IN
         IF l.ok THEN l.val ELSE RawDoc(s)

_parse_result_payload(payload) ==
    IF payload.t \in {"list", "dict"} THEN payload
    ELSE IF payload.t = "str" THEN ParseText(Strip(payload.v))
    ELSE RawDoc(Str(payload))

---------------------------------------------------------------------------
(* _coerce_to_documents *)

\* haystack.Document(content=content, meta=meta).  haystack from 2.11 on
\* rejects a truthy content that is not a str with ValueError; earlier 2.x
\* stores it.  docStrict says which one is installed.
Document(content, meta) ==
    IF docStrict /\ Truthy(content) /\ content.t # "str"
    THEN Raise("ValueError")
    ELSE [t |-> "Document", v |-> [content |-> content, meta |-> meta]]

DocKeys == <<"documents", "docs", "results", "retrieved_documents", "retrieved_docs">>

\* FirstDocKey stopping at the first key that is present, list or not
RECURSIVE FirstDocKeyAnyValue(_, _)
FirstDocKeyAnyValue(obj, i) ==
    IF i > Len(DocKeys) THEN 0
    ELSE IF HasKey(obj, DocKeys[i]) THEN i
    ELSE FirstDocKeyAnyValue(obj, i + 1)

\* the first index i..Len(DocKeys) whose key is in obj with a list value,
\* 0 if there is none
RECURSIVE FirstDocKey(_, _)
FirstDocKey(obj, i) ==
    IF i > Len(DocKeys) THEN 0
    ELSE IF HasKey(obj, DocKeys[i]) /\ Item(obj, DocKeys[i]).t = "list" THEN i
    ELSE FirstDocKey(obj, i + 1)

\* ItemContent taking the first key that is present, whatever it holds
ItemContentFirstPresent(item) ==
    LET content == IF HasKey(item, "content") THEN Item(item, "content")
                   ELSE IF HasKey(item, "text") THEN Item(item, "text")
                   ELSE IF HasKey(item, "page_content") THEN Item(item, "page_content")
                   ELSE PyStr("")
    IN  IF content = PyNone THEN PyStr("") ELSE content

\* content of a doc-like dict
ItemContent(item) ==
    LET content == Or(Or(Or(DictGet(item, "content", PyNone),
                            DictGet(item, "text", PyNone)),
                         DictGet(item, "page_content", PyNone)),
                      PyStr(""))
    IN  IF content = PyNone THEN PyStr("") ELSE content

\* meta of a doc-like dict
ItemMeta(item) ==
    Or(Or(DictGet(item, "meta", PyNone), DictGet(item, "metadata", PyNone)),
       PyDict(<<>>))

\* one turn of the loop: what is appended to docs_out, or the exception
CoerceItem(item) ==
    IF item.t = "Document" THEN item
    ELSE IF item.t = "dict" THEN Document(ItemContent(item), ItemMeta(item))
    ELSE Document(PyStr(Str(item)), PyDict(<<>>))

\* CoerceItems appending a document only when docs_out does not hold it
RECURSIVE CoerceItemsDedup(_, _, _)
CoerceItemsDedup(items, i, docs_out) ==
    IF i > Len(items) THEN PyList(docs_out)
    ELSE LET d == CoerceItem(items[i]) IN
         IF IsRaise(d) THEN d
         ELSE IF \E k \in 1..Len(docs_out) : docs_out[k] = d
              THEN CoerceItemsDedup(items, i + 1, docs_out)
              ELSE CoerceItemsDedup(items, i + 1, Append(docs_out, d))

\* the loop over a list from item i on
RECURSIVE CoerceItems(_, _, _)
CoerceItems(items, i, docs_out) ==
    IF i > Len(items) THEN PyList(docs_out)
    ELSE LET d == CoerceItem(items[i]) IN
         IF IsRaise(d) THEN d ELSE CoerceItems(items, i + 1, Append(docs_out, d))

\* lines 252-273: obj is what the dict branch left
CoerceList(obj) ==
    IF obj.t = "list" THEN CoerceItems(obj.v, 1, <<>>) ELSE PyList(<<>>)

RECURSIVE _coerce_to_documents(_)
_coerce_to_documents(obj) ==
    IF obj.t = "dict" THEN
        LET k == FirstDocKey(obj, 1) IN
        IF k # 0 THEN _coerce_to_documents(Item(obj, DocKeys[k]))
        ELSE CoerceList(PyList(<<obj>>))
    ELSE CoerceList(obj)

---------------------------------------------------------------------------
(* get_clean_docs *)

\* line 286: the role the message is filtered on
RoleVal(msg) ==
    LET role == GetAttr(msg, "_role", PyNone) IN
    Or(GetAttr(role, "value", PyNone), GetAttr(msg, "role", PyNone))

\* IsToolMessage without .lower()
IsToolMessageCaseSensitive(msg) == Str(RoleVal(msg)) = "tool"

\* line 287: the message is not skipped
IsToolMessage(msg) == Lower(Str(RoleVal(msg))) = "tool"

\* line 290
MessageContent(msg) ==
    Or(Or(GetAttr(msg, "_content", PyNone), GetAttr(msg, "content", PyNone)),
       PyList(<<>>))

\* AddPart without its else branch: only a result whose origin is the
\* target tool becomes a candidate
AddPartMatchingOnly(cands, part, target_tool_name) ==
    LET result == GetAttr(part, "result", PyNone)
        origin == GetAttr(part, "origin", PyNone)
        tool_name == GetAttr(origin, "tool_name", PyNone)
    IN  IF result = PyNone THEN cands
        ELSE IF Truthy(target_tool_name) /\ tool_name = target_tool_name
             THEN Append(cands, result)
             ELSE cands

\* lines 293-302: candidates after the content item part
AddPart(cands, part, target_tool_name) ==
    LET result == GetAttr(part, "result", PyNone)
        origin == GetAttr(part, "origin", PyNone)
        tool_name == GetAttr(origin, "tool_name", PyNone)
    IN  IF result = PyNone THEN cands
        ELSE IF Truthy(target_tool_name) /\ tool_name = target_tool_name
             THEN Append(cands, result)
             ELSE Append(cands, result)

\* lines 292-302: the loop over the content items from item i on
RECURSIVE AddParts(_, _, _, _)
AddParts(cands, parts, i, target_tool_name) ==
    IF i > Len(parts) THEN cands
    ELSE AddParts(AddPart(cands, parts[i], target_tool_name), parts, i + 1,
                  target_tool_name)

\* lines 285-302: candidates after the message msg
AddMessage(cands, msg, target_tool_name) ==
    IF ~IsToolMessage(msg) THEN cands
    ELSE LET content == MessageContent(msg) IN
         IF content.t = "list" THEN AddParts(cands, content.v, 1, target_tool_name)
         ELSE cands

\* lines 284-302: the loop over the messages from message i on
RECURSIVE AddMessages(_, _, _, _)
AddMessages(cands, msgs, i, target_tool_name) ==
    IF i > Len(msgs) THEN cands
    ELSE AddMessages(AddMessage(cands, msgs[i], target_tool_name), msgs, i + 1,
                     target_tool_name)

\* lines 283-302: the candidates list, or the exception of answer.get or
\* of the for statement
Candidates(answer, target_tool_name) ==
    IF answer.t # "dict" THEN Raise("AttributeError")
    ELSE LET messages == DictGet(answer, "messages", PyList(<<>>)) IN
         IF ~Iterable(messages) THEN Raise("TypeError")
         ELSE PyList(AddMessages(<<>>, Iter(messages), 1, target_tool_name))

\* lines 304-309: what the try block returns from the candidates
Consume(cands) ==
    IF Len(cands) = 0 THEN PyList(<<>>)
    ELSE _coerce_to_documents(_parse_result_payload(cands[1]))

\* lines 282-309: the try block, its value or the exception it raises
TryBlock(answer, target_tool_name) ==
    LET c == Candidates(answer, target_tool_name) IN
    IF IsRaise(c) THEN c ELSE Consume(c.v)

\* the exception types the model raises, all subclasses of Exception
Exceptions == {"AttributeError", "TypeError", "ValueError"}

\* Except catching ValueError alone
ExceptValueErrorOnly(r) ==
    IF IsRaise(r) /\ r.v = "ValueError" THEN PyList(<<>>) ELSE r

\* lines 311-313: except Exception
Except(r) == IF IsRaise(r) /\ r.v \in Exceptions THEN PyList(<<>>) ELSE r

get_clean_docs(answer, target_tool_name) ==
    Except(TryBlock(answer, target_tool_name))

---------------------------------------------------------------------------
(* extract_combined_tools *)

\* x in c   (c a str, list, tuple or dict)
In(x, c) ==
    CASE c.t = "str" -> x.t = "str" /\ Contains(c.v, x.v)
      [] c.t \in {"list", "tuple"} -> \E k \in 1..Len(c.v) : c.v[k] = x
      [] c.t = "dict" -> PairIndex(c.v, x, 1) # 0
      [] OTHER -> FALSE

\* lines 335-339
Normalize(tool_name) ==
    IF In(PyStr("context_retrieval"), tool_name) \/ In(PyStr("rag_tool"), tool_name)
    THEN PyStr("rag")
    ELSE IF In(PyStr("web_search"), tool_name) THEN PyStr("web_search")
    ELSE tool_name

\* AddTool without the membership test of line 341
AddToolNoDedup(used, item) ==
    IF ~HasAttr(item, "tool_name") THEN PyList(used)
    ELSE LET tool_name == GetAttr(item, "tool_name", PyNone) IN
         IF ~Iterable(tool_name) THEN Raise("TypeError")
         ELSE PyList(Append(used, Normalize(tool_name)))

\* lines 332-342: tools_used after the content item, or the TypeError of
\* "..." in tool_name
AddTool(used, item) ==
    IF ~HasAttr(item, "tool_name") THEN PyList(used)
    ELSE LET tool_name == GetAttr(item, "tool_name", PyNone) IN
         IF ~Iterable(tool_name) THEN Raise("TypeError")
         ELSE LET n == Normalize(tool_name) IN
              IF \E k \in 1..Len(used) : used[k] = n THEN PyList(used)
              ELSE PyList(Append(used, n))

\* lines 331-342: the loop over the content items from item i on
RECURSIVE AddTools(_, _, _)
AddTools(used, items, i) ==
    IF i > Len(items) THEN PyList(used)
    ELSE LET u == AddTool(used, items[i]) IN
         IF IsRaise(u) THEN u ELSE AddTools(u.v, items, i + 1)

\* lines 329-342: tools_used after the message
ScanMessage(used, message) ==
    LET content == Or(GetAttr(message, "_content", PyList(<<>>)), PyList(<<>>)) IN
    IF ~Iterable(content) THEN Raise("TypeError")
    ELSE AddTools(used, Iter(content), 1)

\* lines 328-342: the loop over the messages from message i on
RECURSIVE ScanMessages(_, _, _)
ScanMessages(used, msgs, i) ==
    IF i > Len(msgs) THEN PyList(used)
    ELSE LET u == ScanMessage(used, msgs[i]) IN
         IF IsRaise(u) THEN u ELSE ScanMessages(u.v, msgs, i + 1)

\* " | ".join(items) from item i on
RECURSIVE Join(_, _)
Join(items, i) ==
    IF i > Len(items) THEN ""
    ELSE (IF i > 1 THEN " | " ELSE "") \o items[i].v \o Join(items, i + 1)

\* lines 323-324: the early return "none"; "messages" not in raw_answer
\* raises TypeError when raw_answer is truthy and no container
EarlyNone(raw_answer) ==
    IF ~Truthy(raw_answer) THEN PyBool(TRUE)
    ELSE IF ~Iterable(raw_answer) THEN Raise("TypeError")
    ELSE PyBool(~In(PyStr("messages"), raw_answer))

\* lines 321-342: tools_used at the return statement of line 344, the empty
\* list at the early return, or the exception the function propagates
ToolsUsed(raw_answer) ==
    LET e == EarlyNone(raw_answer) IN
    IF IsRaise(e) THEN e
    ELSE IF e.v THEN PyList(<<>>)
    ELSE IF raw_answer.t # "dict" THEN Raise("AttributeError")
    ELSE LET messages == DictGet(raw_answer, "messages", PyList(<<>>)) IN
         IF ~Iterable(messages) THEN Raise("TypeError")
         ELSE ScanMessages(<<>>, Iter(messages), 1)

\* line 344 without its else branch: the plain join
JoinOnly(used) ==
    IF \E k \in 1..Len(used) : used[k].t # "str" THEN Raise("TypeError")
    ELSE PyStr(Join(used, 1))

\* line 344
JoinOrNone(used) ==
    IF Len(used) = 0 THEN PyStr("none")
    ELSE IF \E k \in 1..Len(used) : used[k].t # "str" THEN Raise("TypeError")
    ELSE PyStr(Join(used, 1))

extract_combined_tools(raw_answer) ==
    LET u == ToolsUsed(raw_answer) IN
    IF IsRaise(u) THEN u ELSE JoinOrNone(u.v)

---------------------------------------------------------------------------
(* The values the calls are made on *)

MaxMsgs == 2     \* messages of a transcript
MaxList == 2     \* items of a list handed to _coerce_to_documents

\* all sequences over S of length 0..n
RECURSIVE SeqsUpTo(_, _)
SeqsUpTo(S, n) ==
    IF n = 0 THEN {<<>>}
    ELSE LET shorter == SeqsUpTo(S, n - 1) IN
         shorter \cup {Append(q, x) : q \in {r \in shorter : Len(r) = n - 1}, x \in S}

\* no pair, or the pair key: c for a c of choices
Opt(key, choices) == {<<>>} \cup {<< <<PyStr(key), c>> >> : c \in choices}

Dict1(k, val) == PyDict(<< <<PyStr(k), val>> >>)
Dict2(k1, v1, k2, v2) == PyDict(<< <<PyStr(k1), v1>>, <<PyStr(k2), v2>> >>)

(* the objects of a haystack transcript, by the attributes the code reads *)

\* ChatRole: an enum member carrying .value
ChatRole(value) == PyObject(<< <<"value", PyStr(value)>> >>)
TextContent(text) == PyObject(<< <<"text", PyStr(text)>> >>)
ToolCall(tool_name) ==
    PyObject(<< <<"tool_name", tool_name>>, <<"arguments", PyDict(<<>>)>>,
                <<"id", PyNone>> >>)
ToolCallResult(result, origin) ==
    PyObject(<< <<"result", result>>, <<"origin", origin>>,
                <<"error", PyBool(FALSE)>> >>)
\* a result item that carries no origin
BareResult(result) == PyObject(<< <<"result", result>> >>)
\* ChatMessage: _role, _content, _meta and the property role
ChatMessage(role, content) ==
    PyObject(<< <<"_role", ChatRole(role)>>, <<"_content", content>>,
                <<"_meta", PyDict(<<>>)>>, <<"role", ChatRole(role)>> >>)
\* a message object that exposes role as a plain string, and content
PlainMessage(role, content) ==
    PyObject(<< <<"role", PyStr(role)>>, <<"content", content>> >>)

\* the same object with dictionary-style access: every attribute a key (an
\* enum member, the value of a role, stays what it is)
RECURSIVE DictStyle(_)
DictStyle(x) ==
    CASE x.t = "object" /\ HasAttr(x, "value") -> x
      [] x.t = "object" ->
            PyDict([i \in 1..Len(x.v) |-> <<PyStr(x.v[i][1]), DictStyle(x.v[i][2])>>])
      [] x.t \in {"list", "tuple"} ->
            [t |-> x.t, v |-> [i \in 1..Len(x.v) |-> DictStyle(x.v[i])]]
      [] x.t = "dict" ->
            PyDict([i \in 1..Len(x.v) |-> <<x.v[i][1], DictStyle(x.v[i][2])>>])
      [] OTHER -> x

RagCall == ToolCall(PyStr("rag_tool"))
WebCall == ToolCall(PyStr("web_search"))

ResJson == PyStr("[{\"content\": \"a\"}]")
ResLiteral == PyStr("['b', 'c']")
ResRaw == PyStr(" plain text \n")
ResList == PyList(<<Dict1("text", PyStr("d"))>>)
ResScalar == PyStr("42")
ResNumContent == PyStr("[{\"content\": 5}]")

Messages ==
    { ChatMessage("tool", PyList(<<ToolCallResult(ResJson, RagCall)>>)),
      ChatMessage("tool", PyList(<<ToolCallResult(ResLiteral, WebCall)>>)),
      ChatMessage("tool", PyList(<<ToolCallResult(ResLiteral, WebCall),
                                   ToolCallResult(ResJson, RagCall)>>)),
      ChatMessage("tool", PyList(<<ToolCallResult(PyNone, RagCall),
                                   ToolCallResult(ResRaw, RagCall)>>)),
      ChatMessage("TOOL", PyList(<<ToolCallResult(ResList, RagCall)>>)),
      ChatMessage("tool", PyList(<<ToolCallResult(ResNumContent, RagCall)>>)),
      ChatMessage("tool", PyList(<<>>)),
      ChatMessage("tool", PyTuple(<<ToolCallResult(ResJson, RagCall)>>)),
      PlainMessage("Tool", PyList(<<BareResult(ResRaw)>>)),
      PlainMessage("tool", PyList(<<ToolCallResult(ResScalar, RagCall)>>)),
      PlainMessage("user", PyList(<<ToolCallResult(ResLiteral, WebCall)>>)),
      ChatMessage("assistant", PyList(<<ToolCallResult(ResJson, RagCall)>>)),
      ChatMessage("assistant", PyList(<<RagCall>>)),
      ChatMessage("assistant", PyList(<<WebCall, RagCall, WebCall>>)),
      ChatMessage("assistant", PyList(<<ToolCall(PyStr("context_retrieval_v2"))>>)),
      ChatMessage("assistant", PyList(<<ToolCall(PyStr("my_rag_tool")),
                                        ToolCall(PyStr("calculator")),
                                        ToolCall(PyStr("web_search_api"))>>)),
      ChatMessage("assistant", PyList(<<ToolCall(PyNone)>>)),
      ChatMessage("assistant", PyList(<<ToolCall(PyStr("none"))>>)),
      ChatMessage("user", PyList(<<TextContent("q")>>)),
      DictStyle(PlainMessage("tool", PyList(<<ToolCallResult(ResJson, RagCall)>>))),
      DictStyle(ChatMessage("assistant", PyList(<<WebCall>>))),
      PyNone }

\* answer / raw_answer: the dict the agent returns, and what is not one
Transcripts ==
    {Dict1("messages", PyList(m)) : m \in SeqsUpTo(Messages, MaxMsgs)}
    \cup { PyNone, PyDict(<<>>), PyList(<<>>), Dict1("messages", PyNone),
           Dict1("last_message", PyNone), PyStr("messages"),
           PyList(<<PyStr("messages")>>), PyInt(1),
           Dict1("messages", PyTuple(<<ChatMessage("tool",
                     PyList(<<ToolCallResult(ResJson, RagCall)>>))>>)) }

Targets == {PyStr("rag_tool"), PyStr("web_search"), PyStr("")}

\* text payloads: JSON, Python literals, prose; structures and scalars
Texts ==
    { "[{\"content\": \"Revenue was $500B\"}]",
      "{\"retrieved_docs\": [{\"text\": \"foo\", \"meta\": {\"page\": 1}}]}",
      "hello world", "No results found.", "{\"a\": 1", "", "[true]",
      "['chunk one', 'chunk two']", "[\"a\", 'b']", "[1, 2,]",
      "{'documents': [{'page_content': 'p'}], 'docs': 'x'}",
      "('a', 1)", "1, 2", "()", "42", "true", "null", "\"hi\"", "'hi'",
      "None", "True", "\"a\\/b\"", "[\"a\\/b\"]", "{}", "[]" }

Pads == {"", " ", "\n\t"}

Payloads ==
    {PyStr(l \o x \o r) : l \in Pads, x \in Texts, r \in Pads}
    \cup { ResList, PyList(<<>>), PyDict(<<>>), Dict1("docs", PyList(<<PyStr("x")>>)),
           PyNone, PyInt(7), PyBool(TRUE), PyTuple(<<PyStr("a")>>) }

\* a Document as a caller hands it in
Doc(content, meta) == [t |-> "Document", v |-> [content |-> content, meta |-> meta]]

PageMeta == Dict1("page", PyInt(1))
SrcMeta == Dict1("src", PyStr("s"))

\* doc-like dicts over the keys the coercer reads
DocLike ==
    { PyDict(a \o b \o c \o d \o e) :
        a \in Opt("content", {PyStr(""), PyStr("c")}),
        b \in Opt("text", {PyStr(""), PyStr("t")}),
        c \in Opt("page_content", {PyStr("p")}),
        d \in Opt("meta", {PyDict(<<>>), PageMeta}),
        e \in Opt("metadata", {SrcMeta}) }

\* items of the longer lists
Items ==
    { Doc(PyStr("d1"), PyDict(<<>>)), Doc(PyStr("d2"), PageMeta),
      Dict1("content", PyStr("c")), Dict2("text", PyStr("foo"), "meta", PageMeta),
      Dict2("content", PyStr(""), "text", PyStr("foo")),
      Dict2("content", PyNone, "page_content", PyStr("p")),
      Dict1("content", PyInt(5)), Dict2("text", PyStr("t"), "meta", PyStr("m")),
      PyStr("s"), PyInt(7), PyNone, PyList(<<PyStr("n")>>) }

\* mappings over the keys the coercer searches, written in the reverse of
\* the search order, each key absent, a list or not a list
DocMaps ==
    { PyDict(x \o e \o d \o c \o b \o a) :
        a \in Opt("documents", {PyList(<<PyStr("k1")>>), PyStr("no")}),
        b \in Opt("docs", {PyList(<<PyStr("k2")>>), PyNone}),
        c \in Opt("results", {PyList(<<Dict1("text", PyStr("k3"))>>), PyDict(<<>>)}),
        d \in Opt("retrieved_documents", {PyList(<<>>), PyTuple(<<PyStr("k4")>>)}),
        e \in Opt("retrieved_docs", {PyList(<<PyStr("k5"), PyStr("k5")>>), PyInt(0)}),
        x \in Opt("content", {PyStr("self")}) }

Objs ==
    {PyList(q) : q \in SeqsUpTo(Items, MaxList)}
    \cup {PyList(<<i>>) : i \in DocLike}
    \cup DocMaps
    \cup {PyNone, PyInt(5), PyStr("s"), PyTuple(<<Dict1("content", PyStr("c"))>>)}

---------------------------------------------------------------------------
(* The calls *)

Init ==
    /\ \/ fn = "_parse_result_payload" /\ arg \in Payloads /\ target = PyNone
       \/ fn = "_coerce_to_documents" /\ arg \in Objs /\ target = PyNone
       \/ fn = "get_clean_docs" /\ arg \in Transcripts /\ target \in Targets
       \/ fn = "extract_combined_tools" /\ arg \in Transcripts /\ target = PyNone
    /\ docStrict \in BOOLEAN
    /\ pc = "call"
    /\ ret = PyNone
    /\ candidates = <<>>
    /\ tools_used = <<>>

CallParse ==
    /\ pc = "call" /\ fn = "_parse_result_payload"
    /\ ret' = _parse_result_payload(arg)
    /\ pc' = "done"
    /\ UNCHANGED <<fn, arg, target, docStrict, candidates, tools_used>>

CallCoerce ==
    /\ pc = "call" /\ fn = "_coerce_to_documents"
    /\ ret' = _coerce_to_documents(arg)
    /\ pc' = "done"
    /\ UNCHANGED <<fn, arg, target, docStrict, candidates, tools_used>>

CallGetCleanDocs ==
    /\ pc = "call" /\ fn = "get_clean_docs"
    /\ ret' = get_clean_docs(arg, target)
    /\ candidates' = LET c == Candidates(arg, target) IN
                     IF IsRaise(c) THEN <<>> ELSE c.v
    /\ pc' = "done"
    /\ UNCHANGED <<fn, arg, target, docStrict, tools_used>>

CallExtractCombinedTools ==
    /\ pc = "call" /\ fn = "extract_combined_tools"
    /\ ret' = extract_combined_tools(arg)
    /\ tools_used' = LET u == ToolsUsed(arg) IN
                     IF IsRaise(u) THEN <<>> ELSE u.v
    /\ pc' = "done"
    /\ UNCHANGED <<fn, arg, target, docStrict, candidates>>

Next == CallParse \/ CallCoerce \/ CallGetCleanDocs \/ CallExtractCombinedTools

Spec == Init /\ [][Next]_vars

---------------------------------------------------------------------------
(* The transcript as the data model describes it, read without the code's  *)
(* operators: a mapping whose "messages" is a list of messages, a message  *)
(* exposing a role and a list of content items as attributes.              *)

Done(f) == pc = "done" /\ fn = f

Empty == PyList(<<>>)

\* the messages of a transcript
SpecMessages(answer) ==
    IF answer.t = "dict" /\ HasKey(answer, "messages") THEN Item(answer, "messages")
    ELSE Empty

\* what a message exposes as its content
SpecContent(msg) ==
    IF HasAttr(msg, "_content") THEN GetAttr(msg, "_content", PyNone)
    ELSE IF HasAttr(msg, "content") THEN GetAttr(msg, "content", PyNone)
    ELSE Empty

\* the transcript has the shape of the data model
WellFormed(answer) ==
    /\ answer.t = "dict"
    /\ SpecMessages(answer).t = "list"
    /\ \A i \in 1..Len(SpecMessages(answer).v) :
           SpecContent(SpecMessages(answer).v[i]).t = "list"

\* the role text of a message: the value its enum-like _role carries, else
\* its plain string role
SpecRole(msg) ==
    LET r == GetAttr(msg, "_role", PyNone) IN
    IF HasAttr(r, "value") THEN GetAttr(r, "value", PyNone)
    ELSE GetAttr(msg, "role", PyNone)

SpecIsTool(msg) == SpecRole(msg).t = "str" /\ Lower(SpecRole(msg).v) = "tool"

HasResult(part) == HasAttr(part, "result") /\ GetAttr(part, "result", PyNone) # PyNone

\* the non-absent results of the content items of a message, in order
SpecResultsOf(msg) ==
    LET with == SelectSeq(SpecContent(msg).v, HasResult) IN
    [i \in 1..Len(with) |-> GetAttr(with[i], "result", PyNone)]

\* the results of the tool-role messages from message i on, in traversal order
RECURSIVE SpecResults(_, _)
SpecResults(msgs, i) ==
    IF i > Len(msgs) THEN <<>>
    ELSE (IF SpecIsTool(msgs[i]) THEN SpecResultsOf(msgs[i]) ELSE <<>>)
         \o SpecResults(msgs, i + 1)

\* the documents of a payload, the empty list when coercing it raises
DocsOf(payload) ==
    LET d == _coerce_to_documents(_parse_result_payload(payload)) IN
    IF IsRaise(d) THEN Empty ELSE d

---------------------------------------------------------------------------
---------------------------------------------------------------------------
\* the value of the first of keys, from key i on, that item holds (first
\* present) or holds with a truthy value (first truthy), else the default
RECURSIVE FirstPresent(_, _, _, _)
FirstPresent(item, keys, i, default) ==
    IF i > Len(keys) THEN default
    ELSE IF HasKey(item, keys[i]) THEN Item(item, keys[i])
    ELSE FirstPresent(item, keys, i + 1, default)

RECURSIVE FirstTruthy(_, _, _, _)
FirstTruthy(item, keys, i, default) ==
    IF i > Len(keys) THEN default
    ELSE IF HasKey(item, keys[i]) /\ Truthy(Item(item, keys[i]))
         THEN Item(item, keys[i])
    ELSE FirstTruthy(item, keys, i + 1, default)

ContentKeys == <<"content", "text", "page_content">>
MetaKeys == <<"meta", "metadata">>

\* a list was coerced and the call returned
CoercedList == Done("_coerce_to_documents") /\ arg.t = "list" /\ ~IsRaise(ret)

\* the item is a mapping whose content keys hold strings and whose metadata
\* keys hold mappings
PlainDocLike(item) ==
    /\ item.t = "dict"
    /\ \A k \in 1..Len(ContentKeys) :
           HasKey(item, ContentKeys[k]) => Item(item, ContentKeys[k]).t = "str"
    /\ \A k \in 1..Len(MetaKeys) :
           HasKey(item, MetaKeys[k]) => Item(item, MetaKeys[k]).t = "dict"

(* C2 as stated: the Document of a mapping item takes its content from the *)
(* first key present among content, text, page_content (an explicit empty  *)
(* string wins), "" when none is present, and its metadata from meta if    *)
(* present, else metadata if present, else an empty mapping.  Stated for   *)
(* the items whose content keys hold strings and metadata keys mappings.   *)
C2_FirstPresentKeyWins ==
    CoercedList =>
        /\ Len(ret.v) = Len(arg.v)
        /\ \A i \in 1..Len(arg.v) :
               PlainDocLike(arg.v[i]) =>
                   ret.v[i] = Doc(FirstPresent(arg.v[i], ContentKeys, 1, PyStr("")),
                                  FirstPresent(arg.v[i], MetaKeys, 1, PyDict(<<>>)))

(* C2 amended: the content is the value of the first key among content,    *)
(* text, page_content whose value is truthy (a missing key, None and an    *)
(* empty string are all passed over), "" when there is none; the metadata  *)
(* is the value of meta if truthy, else of metadata if truthy, else an     *)
(* empty mapping.                                                          *)
C2_FirstTruthyKeyWins ==
    CoercedList =>
        /\ Len(ret.v) = Len(arg.v)
        /\ \A i \in 1..Len(arg.v) :
               arg.v[i].t = "dict" =>
                   ret.v[i] = Doc(FirstTruthy(arg.v[i], ContentKeys, 1, PyStr("")),
                                  FirstTruthy(arg.v[i], MetaKeys, 1, PyDict(<<>>)))

\* {"content": "", "text": "foo"} yields content "foo"
C2_Witness ==
    /\ Done("_coerce_to_documents")
    /\ arg = PyList(<<Dict2("content", PyStr(""), "text", PyStr("foo"))>>)
    /\ ret = PyList(<<Doc(PyStr("foo"), PyDict(<<>>))>>)

(* C3: whatever the payload, _parse_result_payload returns a list or a     *)
(* mapping.                                                                *)
C3_ParsedIsListOrMapping ==
    Done("_parse_result_payload") => ret.t \in {"list", "dict"}

(* C4: on a text payload the parser works on the stripped text t: the      *)
(* JSON value of t when t is JSON; else the literal value of t when t is a *)
(* Python literal; else [{"content": t}].                                  *)
C4_FixedDecoderOrder ==
    (Done("_parse_result_payload") /\ arg.t = "str") =>
        LET t == Strip(arg.v) IN
        /\ JsonLoads(t).ok => ret = JsonLoads(t).val
        /\ (~JsonLoads(t).ok /\ LiteralEval(t).ok) => ret = LiteralEval(t).val
        /\ (~JsonLoads(t).ok /\ ~LiteralEval(t).ok) =>
               ret = PyList(<<Dict1("content", PyStr(t))>>)

\* a padded text that both decoders accept, with different values: the
\* JSON value is returned
C4_Witness ==
    /\ Done("_parse_result_payload")
    /\ arg = PyStr(" \"a\\/b\"\n\t")
    /\ ret = PyStr("a/b")
    /\ LiteralEval("\"a\\/b\"").ok
    /\ LiteralEval("\"a\\/b\"").val = PyStr("a\\/b")

---------------------------------------------------------------------------
\* the tool names of the content items of a message, in order
HasToolName(item) == HasAttr(item, "tool_name")

SpecToolNamesOf(msg) ==
    LET content == GetAttr(msg, "_content", Empty)
        with == IF content.t = "list" THEN SelectSeq(content.v, HasToolName) ELSE <<>>
    IN  [i \in 1..Len(with) |-> GetAttr(with[i], "tool_name", PyNone)]

\* the tool names of all messages from message i on, in traversal order
RECURSIVE SpecToolNames(_, _)
SpecToolNames(msgs, i) ==
    IF i > Len(msgs) THEN <<>>
    ELSE SpecToolNamesOf(msgs[i]) \o SpecToolNames(msgs, i + 1)

\* the category of a tool name
SpecCategory(name) ==
    IF Contains(name, "context_retrieval") \/ Contains(name, "rag_tool") THEN "rag"
    ELSE IF Contains(name, "web_search") THEN "web_search"
    ELSE name

\* the first occurrences of seq, in order
RECURSIVE FirstSeen(_, _)
FirstSeen(seq, i) ==
    IF i > Len(seq) THEN <<>>
    ELSE (IF \E k \in 1..(i - 1) : seq[k] = seq[i] THEN <<>> ELSE <<seq[i]>>)
         \o FirstSeen(seq, i + 1)

RECURSIVE SpecJoin(_)
SpecJoin(cats) ==
    IF Len(cats) = 1 THEN cats[1] ELSE cats[1] \o " | " \o SpecJoin(Tail(cats))

(* C5: on a transcript whose tool names are strings, extract_combined_tools *)
(* never emits a category twice and lists the categories of the tool names  *)
(* of all messages, whatever their role, in first-seen order, joined with   *)
(* " | " ("none" when there is none); a name containing context_retrieval   *)
(* or rag_tool is rag, else one containing web_search is web_search, else   *)
(* the name itself.                                                         *)
C5_CategoriesOnceInFirstSeenOrder ==
    LET names == SpecToolNames(SpecMessages(arg).v, 1)
        cats == FirstSeen([i \in 1..Len(names) |-> SpecCategory(names[i].v)], 1)
    IN  (/\ Done("extract_combined_tools")
         /\ WellFormed(arg)
         /\ \A i \in 1..Len(names) : names[i].t = "str") =>
            /\ tools_used = [i \in 1..Len(cats) |-> PyStr(cats[i])]
            /\ \A i, j \in 1..Len(tools_used) : i # j => tools_used[i] # tools_used[j]
            /\ ret = PyStr(IF Len(cats) = 0 THEN "none" ELSE SpecJoin(cats))

\* tool calls web_search, rag_tool, web_search give "web_search | rag"
C5_Witness ==
    /\ Done("extract_combined_tools")
    /\ arg = Dict1("messages", PyList(<<
                 ChatMessage("assistant", PyList(<<WebCall, RagCall, WebCall>>))>>))
    /\ ret = PyStr("web_search | rag")

(* C6: get_clean_docs never propagates an exception: it returns a list,    *)
(* and the empty list whenever its try block raises.                       *)
C6_NeverPropagates ==
    Done("get_clean_docs") =>
        /\ ret.t = "list"
        /\ IsRaise(TryBlock(arg, target)) => ret = Empty

\* the transcript is None: answer.get raises AttributeError and the call
\* returns the empty list
C6_Witness ==
    /\ Done("get_clean_docs")
    /\ arg = PyNone
    /\ TryBlock(arg, target) = Raise("AttributeError")
    /\ ret = Empty

(* C7: a message contributes candidate payloads exactly when its role,     *)
(* given as an enum-like value or as a plain string and compared without   *)
(* regard to case, is "tool"; a transcript without tool-role messages      *)
(* yields the empty list.                                                  *)
C7_OnlyToolRoleContributes ==
    (Done("get_clean_docs") /\ WellFormed(arg)) =>
        LET msgs == SpecMessages(arg).v IN
        /\ candidates = SpecResults(msgs, 1)
        /\ (\A i \in 1..Len(msgs) : ~SpecIsTool(msgs[i])) => ret = Empty

\* an assistant message with a result is skipped, a message whose plain
\* string role is "Tool" contributes
C7_Witness ==
    /\ Done("get_clean_docs")
    /\ arg = Dict1("messages", PyList(<<
                 ChatMessage("assistant", PyList(<<ToolCallResult(ResJson, RagCall)>>)),
                 PlainMessage("Tool", PyList(<<BareResult(ResRaw)>>))>>))
    /\ candidates = <<ResRaw>>
    /\ ret = PyList(<<Doc(PyStr("plain text"), PyDict(<<>>))>>)

---------------------------------------------------------------------------
SearchOrder == <<"documents", "docs", "results", "retrieved_documents", "retrieved_docs">>

\* key k of SearchOrder is in m with a list value
ListAt(m, k) == HasKey(m, SearchOrder[k]) /\ Item(m, SearchOrder[k]).t = "list"

(* C8: coercing a mapping is coercing the list under the first key of      *)
(* documents, docs, results, retrieved_documents, retrieved_docs that it   *)
(* holds with a list value (a key holding something else is passed over),  *)
(* and coercing [m] when there is no such key.                             *)
C8_DelegatesToFirstListKey ==
    (Done("_coerce_to_documents") /\ arg.t = "dict") =>
        IF \E k \in 1..Len(SearchOrder) : ListAt(arg, k)
        THEN LET k == CHOOSE k \in 1..Len(SearchOrder) :
                          ListAt(arg, k) /\ \A j \in 1..(k - 1) : ~ListAt(arg, j)
             IN  ret = _coerce_to_documents(Item(arg, SearchOrder[k]))
        ELSE ret = _coerce_to_documents(PyList(<<arg>>))

\* "documents" holds a string and "docs" a list: the documents are those
\* of "docs"
C8_Witness ==
    /\ Done("_coerce_to_documents")
    /\ arg.t = "dict"
    /\ HasKey(arg, "documents") /\ Item(arg, "documents").t # "list"
    /\ HasKey(arg, "docs") /\ Item(arg, "docs") = PyList(<<PyStr("k2")>>)
    /\ ret = PyList(<<Doc(PyStr("k2"), PyDict(<<>>))>>)

(* C9: when coercing a list returns, the output has the length of the      *)
(* input, its i-th Document is what the i-th item alone coerces to, a      *)
(* Document item is returned as it is, and coercing the output again       *)
(* returns it.                                                             *)
C9_ItemwiseAndIdempotent ==
    CoercedList =>
        /\ Len(ret.v) = Len(arg.v)
        /\ \A i \in 1..Len(arg.v) :
               /\ PyList(<<ret.v[i]>>) = _coerce_to_documents(PyList(<<arg.v[i]>>))
               /\ arg.v[i].t = "Document" => ret.v[i] = arg.v[i]
        /\ _coerce_to_documents(ret) = ret

\* the same Document twice: both are kept
C9_Witness ==
    /\ Done("_coerce_to_documents")
    /\ arg = PyList(<<Doc(PyStr("d1"), PyDict(<<>>)), Doc(PyStr("d1"), PyDict(<<>>))>>)
    /\ ret = arg

(* C10: get_clean_docs and extract_combined_tools return, for a transcript *)
(* whose messages and content items are objects, what they return for the  *)
(* same transcript with dictionary-style access.                           *)
C10_DictStyleEquivalent ==
    /\ Done("get_clean_docs") => ret = get_clean_docs(DictStyle(arg), target)
    /\ Done("extract_combined_tools") => ret = extract_combined_tools(DictStyle(arg))

---------------------------------------------------------------------------
\* the transcript is absent: None or empty
Absent(answer) == ~Truthy(answer)

\* the tool names the content items of the transcript expose
ExposedToolNames(answer) ==
    IF Absent(answer) THEN <<>> ELSE SpecToolNames(SpecMessages(answer).v, 1)

(* C11: extract_combined_tools returns "none" whenever the transcript is   *)
(* absent (None or empty), has no "messages" key, has an empty "messages"  *)
(* list, or has messages none of whose content items exposes a tool name;  *)
(* and when it returns "none" the transcript is one of those, or a tool is *)
(* literally named "none".                                                 *)
C11_NoneExactlyWhenNoToolName ==
    LET names == ExposedToolNames(arg) IN
    (Done("extract_combined_tools") /\ (Absent(arg) \/ WellFormed(arg))) =>
        /\ Len(names) = 0 => ret = PyStr("none")
        /\ ret = PyStr("none") =>
               \/ Len(names) = 0
               \/ \E i \in 1..Len(names) : names[i] = PyStr("none")

\* a user text and a tool result whose origin names rag_tool: no content
\* item exposes a tool name of its own
C11_Witness ==
    /\ Done("extract_combined_tools")
    /\ arg = Dict1("messages", PyList(<<
                 ChatMessage("user", PyList(<<TextContent("q")>>)),
                 ChatMessage("tool", PyList(<<ToolCallResult(ResJson, RagCall)>>))>>))
    /\ tools_used = <<>>
    /\ ret = PyStr("none")

---------------------------------------------------------------------------
\* every element of the list is a Document
AllDocuments(docs) ==
    docs.t = "list" /\ \A i \in 1..Len(docs.v) : docs.v[i].t = "Document"

(* C12: _coerce_to_documents never raises: for a mapping, a list of any    *)
(* items (Documents, mappings with missing, None or non-string content or  *)
(* non-mapping metadata, scalars, nested lists) or any other value it      *)
(* returns a list of Documents, the empty list when the value is neither a *)
(* list nor a mapping.                                                     *)
C12_CoercerNeverRaises ==
    Done("_coerce_to_documents") =>
        /\ ~IsRaise(ret)
        /\ AllDocuments(ret)
        /\ arg.t \notin {"list", "dict"} => ret = Empty

=============================================================================
